---- MODULE Spec2Model ----
(***************************************************************************)
(* Wellness clinic agent: the conversation graph (LangGraph StateGraph    *)
(* built in buildGraph.ts), its nodes, its routers, and the HTTP handlers  *)
(* that drive it (POST /api/chat, GET /api/stream, POST /api/resume) over  *)
(* the in-memory thread store.                                             *)
(*                                                                         *)
(* Library behaviour the code relies on, as modelled here:                 *)
(*  - compiledGraph.stream(input, {thread_id}) with a non-null input       *)
(*    starts a new run at __start__ : the input is written over the        *)
(*    thread's checkpointed channel values through the channel reducers,   *)
(*    and with streamMode 'values' the state is yielded after the input    *)
(*    and after every step;                                                *)
(*  - a channel declared with Annotation<T>() holds the last value and     *)
(*    accepts one write per step (two writes in one step abort the run);   *)
(*  - interrupt(payload) called in a node of a run that carries no resume  *)
(*    value stops the run there: the node's update is not applied;         *)
(*  - the successors of a node are the union of its edges, its conditional *)
(*    edge and the goto of the Command it returned;                        *)
(*  - a run that needs more than the recursion limit of steps is aborted;  *)
(*  - an exception thrown by a node aborts the run, the step's writes are  *)
(*    dropped.                                                             *)
(* Keys that are not channels (userConfirmed, startSuggestion) are dropped *)
(* from the input.  threadId, userKey, userChoice, retrievedDocs and       *)
(* validatedAswer are not modelled: nothing routes on them.                *)
(* Resume responses of kind StartSuggest are not modelled.  Under Spec     *)
(* requests are handled one at a time: a handler is taken up when no run   *)
(* is in progress.  Under OverlapSpec POST /api/chat is also taken up      *)
(* between two steps of a run.                                             *)
(* Under Spec the clock is steady: no two steps share a millisecond, so no *)
(* two msg_<Date.now()> ids collide.  Under ClockSpec a node that builds   *)
(* its message before its first await may run in the millisecond of the    *)
(* step before it.                                                         *)
(***************************************************************************)
EXTENDS Integers, Sequences, FiniteSets, TLC

\* ------------------------------------------------------------------ bounds
\* HTTP requests followed per behaviour, an aborted run counting as one more
MaxTurns == 4
\* steps of one run before it is aborted (the graph's recursion limit)
MaxHops == 5
\* most slots the availability collaborator returns
MaxAvail == 1

\* ------------------------------------------------------- program constants
\* offerOptionsFinalNode: slots.slice(0, 9)
SlotCap == 9

Threads == {"t1", "t2"}
\* thread ids POST /chat is called with; "t2" is only ever asked for
ChatThreads == {"t1"}

\* slot ids the availability tool hands out: slot_1, slot_2, ...
SlotName == <<"slot_1", "slot_2", "slot_3", "slot_4", "slot_5", "slot_6",
              "slot_7", "slot_8", "slot_9", "slot_10", "slot_11">>

SlotSeq(n) == [i \in 1..n |-> SlotName[i]]

\* UiPhase
Chatting == "Chatting"
SelectingTime == "SelectingTime"
ConfirmingTime == "ConfirmingTime"
Escalated == "Escalated"

\* NodeName
INFER_INTENT == "infer_intent"
POLICY_QUESTION == "policy_question"
OFFER_OPTIONS_AGENT == "offer_options_agent"
OFFER_OPTIONS_TOOLS == "offer_options_tools"
OFFER_OPTIONS_FINAL == "offer_options_final"
CONFIRM_TIME == "confirm_time"
NOTIFY_USER == "notify_user"
ESCALATE_HUMAN == "escalate_human"
\* NodeName.OFFER_OPTIONS, which the intent node and routeAfterInferIntent compare
\* the classified intent with. The NodeName enum declares no such member; whatever
\* the build makes of it, a classifier result equal to it selects scheduling.
OFFER_OPTIONS == "offer_options"

Nodes == {INFER_INTENT, POLICY_QUESTION, OFFER_OPTIONS_AGENT, OFFER_OPTIONS_TOOLS,
          OFFER_OPTIONS_FINAL, CONFIRM_TIME, NOTIFY_USER, ESCALATE_HUMAN}

\* JavaScript undefined, for the string-valued fields
Undef == "undefined"

\* !x for the string-valued fields: '' and undefined are falsy
Falsy(x) == x \in {"", Undef}

\* user texts: a real utterance, and one of blanks only
Texts == {"q", "  "}

\* s.trim() === ''
TrimEmpty(s) == s \in {"", "  "}

\* InterruptPayload; kind "none" stands for no payload (undefined)
NoInterrupt ==
  [kind |-> "none", slots |-> <<>>, selectedSlotId |-> "", requiresUserAction |-> FALSE]

SelectTimePayload(slots) ==
  [kind |-> "SelectTime", slots |-> slots, selectedSlotId |-> "", requiresUserAction |-> TRUE]

ConfirmTimePayload(id) ==
  [kind |-> "ConfirmTime", slots |-> <<>>, selectedSlotId |-> id, requiresUserAction |-> TRUE]

\* ---------------------------------------------------------------- messages
\* A message, as far as the code reads it back: type is its class and, for a
\* tool result, the shape of its content ("human", "ai", "ai_tool_call" for an AI
\* message with tool calls, "tool_array", "tool_error"); form is
\* the shape of its id ("ms" for msg_<Date.now()>, "thinking" for
\* msg_<Date.now()>_thinking, "uuid" for ids the library or the provider assigns);
\* fresh says the id carries the current millisecond; slots is the slot list a
\* tool result holds. The text of a message is write-only for the program: it is
\* kept with the update that appends it (Say), not in the state.
Msg(type, form, slots) == [type |-> type, form |-> form, fresh |-> form # "uuid", slots |-> slots]

Aged(m) == [m EXCEPT !.fresh = FALSE]

AgeAll(msgs) == [i \in 1..Len(msgs) |-> Aged(msgs[i])]

\* an element of an update's messages list: a copy of state.messages[ref]
\* (ref > 0) or a message the node built (ref = 0), with its text
Item(ref, m, text) == [ref |-> ref, m |-> m, text |-> text]

\* [...state.messages]
Spread(msgs) == [i \in 1..Len(msgs) |-> Item(i, msgs[i], "")]

\* a message the node built
Say(text, m) == <<Item(0, m, text)>>

RECURSIVE Said(_)
\* the texts of the messages an update's list adds, in order
Said(items) ==
  IF Len(items) = 0 THEN <<>>
  ELSE (IF Head(items).ref = 0 THEN <<Head(items).text>> ELSE <<>>) \o Said(Tail(items))

IdLeft(m, i) == IF m.fresh /\ m.form # "uuid" THEN <<"now", m.form, 0>> ELSE <<"at", "", i>>

IdRight(it, j) ==
  IF it.m.fresh /\ it.m.form # "uuid" THEN <<"now", it.m.form, 0>>
  ELSE IF it.ref > 0 THEN <<"at", "", it.ref>>
  ELSE <<"new", "", j>>

IndexOfId(acc, id) ==
  IF \E i \in 1..Len(acc) : acc[i].id = id
  THEN CHOOSE i \in 1..Len(acc) : acc[i].id = id /\ \A k \in 1..(i - 1) : acc[k].id # id
  ELSE 0

RECURSIVE MergeById(_, _, _)
MergeById(acc, right, j) ==
  IF j > Len(right) THEN acc
  ELSE LET id == IdRight(right[j], j)
           at == IndexOfId(acc, id)
           e  == [id |-> id, m |-> right[j].m]
       IN MergeById(IF at > 0 THEN [acc EXCEPT ![at] = e] ELSE Append(acc, e), right, j + 1)

\* a reducer that keeps the update's list instead of merging it
replaceMessages(left, right) == [i \in 1..Len(right) |-> right[i].m]

\* messagesStateReducer: a message of right whose id is already in the merged
\* list replaces that entry in place, any other message is appended
messagesStateReducer(left, right) ==
  LET acc0 == [i \in 1..Len(left) |-> [id |-> IdLeft(left[i], i), m |-> left[i]]]
      acc  == MergeById(acc0, right, 1)
  IN [i \in 1..Len(acc) |-> acc[i].m]

\* a reducer that concatenates, as the messages reducer does for new messages
concatSlots(left, right) == left \o right

\* availableSlots reducer: (left, right) => right
availableSlotsReducer(left, right) == right

\* ------------------------------------------------------ conversation state
\* POST /chat: the state of a thread seen for the first time
InitialState(text) ==
  [messages |-> <<>>, uiPhase |-> Chatting, interrupt |-> NoInterrupt,
   availableSlots |-> <<>>, userQuery |-> text, intent |-> "unknown",
   userEscalated |-> FALSE, preferredDate |-> "", preferredProvider |-> "",
   selectedSlotId |-> "", eventId |-> "",
   availableTimesDoNotWork |-> FALSE, twoWeekCapExceeded |-> FALSE,
   escalationNeeded |-> FALSE, userConfirmed |-> Undef]

\* no entry in the thread store / no checkpoint
NoState == [absent |-> TRUE]

\* the keys of StateAnnotation that are modelled; userConfirmed is none of them
Channels == {"messages", "uiPhase", "interrupt", "availableSlots", "userQuery", "intent",
             "userEscalated", "preferredDate", "preferredProvider", "selectedSlotId",
             "eventId", "availableTimesDoNotWork", "twoWeekCapExceeded", "escalationNeeded"}

\* channels declared without a reducer: one write per step
LastValueChannels == Channels \ {"messages", "availableSlots"}

\* a merge that flips a flag when it is written true, instead of setting it
reduceFlipping(k, left, right) ==
  IF k = "messages" THEN messagesStateReducer(left, right)
  ELSE IF k = "availableSlots" THEN availableSlotsReducer(left, right)
  ELSE IF k \in {"userEscalated", "escalationNeeded"} /\ right = TRUE THEN ~left
  ELSE right

\* one channel after one write
ReduceChannel(k, left, right) ==
  IF k = "messages" THEN messagesStateReducer(left, right)
  ELSE IF k = "availableSlots" THEN availableSlotsReducer(left, right)
  ELSE right

\* the state after a node's update is written through the reducers
ApplyUpdate(s, u) ==
  [k \in DOMAIN s |->
     IF k \in DOMAIN u /\ k \in Channels THEN ReduceChannel(k, s[k], u[k]) ELSE s[k]]

\* the channel values a run starts from: the input written over the checkpoint
\* (over the channel defaults when the thread has no checkpoint)
ApplyInput(ckpt, input) ==
  LET base == IF ckpt = NoState THEN InitialState(Undef) ELSE ckpt
      u == [k \in Channels |-> IF k = "messages" THEN Spread(input.messages) ELSE input[k]]
  IN ApplyUpdate(base, u)

\* time passes: no id of the state carries the current millisecond any more
Tick(s) == IF s = NoState THEN s ELSE [s EXCEPT !.messages = AgeAll(s.messages)]

\* ------------------------------------------------------------ node results
\* What a node hands back to the engine: an update (with the goto of its Command),
\* an interrupt() that stopped it, or an exception. calls lists the collaborator
\* calls it made, label names the branch it took, said the texts of the messages
\* it built, ticked says that the clock moved on between the node's first
\* Date.now() and its last.
\* an update that writes no channel
NoUpdate == [nothing |-> TRUE]

Ret(upd, calls, label) ==
  [tag |-> "update", upd |-> upd, goto |-> {}, raise |-> NoInterrupt,
   calls |-> calls, label |-> label, ticked |-> FALSE,
   said |-> IF "messages" \in DOMAIN upd THEN Said(upd.messages) ELSE <<>>]

Goto(upd, goto, calls, label) == [Ret(upd, calls, label) EXCEPT !.goto = goto]

Interrupted(payload, calls, label) ==
  [Ret(NoUpdate, calls, label) EXCEPT !.tag = "interrupt", !.raise = payload]

Thrown(calls, label) == [Ret(NoUpdate, calls, label) EXCEPT !.tag = "throw"]

\* new AIMessage({ id: `msg_${Date.now()}` ... })
AI(text) == Say(text, Msg("ai", "ms", <<>>))

\* ---------------------------------------------------------- intent node
\* what the classifier chain can give: a label, or an exception. The prompt asks
\* for NodeName.POLICY_QUESTION, NodeName.OFFER_OPTIONS_AGENT or "unknown"; the
\* node recognises NodeName.POLICY_QUESTION and NodeName.OFFER_OPTIONS
ClassifierReplies == {POLICY_QUESTION, OFFER_OPTIONS, OFFER_OPTIONS_AGENT, "unknown", "throw"}

\* intentResult.intent: the parsed label, or 'unknown' for any other string
IntentOf(reply) == IF reply \in {OFFER_OPTIONS, POLICY_QUESTION} THEN reply ELSE "unknown"

inferIntentNode(s, reply) ==
  IF Falsy(s.userQuery) \/ TrimEmpty(s.userQuery)
  THEN IF Len(s.messages) = 0
       THEN Ret([messages |-> AI("greeting"), uiPhase |-> Chatting], <<>>, "no_query")
       ELSE Ret([uiPhase |-> Chatting], <<>>, "no_query")
  ELSE IF reply = "throw"
       THEN Ret([messages |-> Spread(s.messages) \o AI("ack_policy"),
                 intent |-> POLICY_QUESTION, uiPhase |-> Chatting],
                <<"classify">>, "classify_throw")
       ELSE LET intent == IntentOf(reply)
            IN Ret([messages |-> Spread(s.messages) \o
                                 AI(IF intent = OFFER_OPTIONS THEN "ack_scheduling"
                                                                     ELSE "ack_policy"),
                    intent |-> IF intent = OFFER_OPTIONS THEN OFFER_OPTIONS ELSE POLICY_QUESTION,
                    uiPhase |-> IF intent = OFFER_OPTIONS THEN SelectingTime ELSE Chatting],
                   <<"classify">>,
                   IF intent = OFFER_OPTIONS THEN "classify_scheduling"
                   ELSE IF reply = OFFER_OPTIONS_AGENT THEN "classify_agent_label"
                   ELSE "classify_policy")

\* routeAfterInferIntent without the userEscalated test
routeIgnoringEscalation(s) ==
  IF Falsy(s.userQuery) \/ TrimEmpty(s.userQuery) THEN "__end__"
  ELSE IF s.intent = OFFER_OPTIONS THEN OFFER_OPTIONS_AGENT
  ELSE POLICY_QUESTION

\* routeAfterInferIntent without the test for an empty query
routeIgnoringBlankQuery(s) ==
  IF s.userEscalated THEN POLICY_QUESTION
  ELSE IF s.intent = OFFER_OPTIONS THEN OFFER_OPTIONS_AGENT
  ELSE POLICY_QUESTION

routeAfterInferIntent(s) ==
  IF Falsy(s.userQuery) \/ TrimEmpty(s.userQuery) THEN "__end__"
  ELSE IF s.userEscalated THEN POLICY_QUESTION
  ELSE IF s.intent = OFFER_OPTIONS THEN OFFER_OPTIONS_AGENT
  ELSE POLICY_QUESTION

\* ---------------------------------------------------------- policy node
\* PolicyValidationPrompt.shouldRejectAnswer rejects below 0.5, in tenths
RejectBelow == 5

\* the judge's reply: text that holds a well-formed JSON result or does not
JudgeReplies ==
  {[throws |-> FALSE, json |-> TRUE, isValid |-> TRUE, confidence |-> 9],
   [throws |-> FALSE, json |-> TRUE, isValid |-> TRUE, confidence |-> 12],
   [throws |-> FALSE, json |-> TRUE, isValid |-> TRUE, confidence |-> 5],
   [throws |-> FALSE, json |-> TRUE, isValid |-> TRUE, confidence |-> 4],
   [throws |-> FALSE, json |-> TRUE, isValid |-> FALSE, confidence |-> 9],
   [throws |-> FALSE, json |-> FALSE, isValid |-> TRUE, confidence |-> 9],
   [throws |-> TRUE, json |-> FALSE, isValid |-> FALSE, confidence |-> 0]}

\* what retrieve() gives: an exception, no chunk, or some chunks
RetrieveReplies == {"throw", "none", "chunks"}

\* what a completion call gives
CompleteReplies == {"ok", "throw"}

\* Math.max(0, Math.min(1, confidence)), in tenths
Clamp(c) == IF c < 0 THEN 0 ELSE IF c > 10 THEN 10 ELSE c

parseValidationResult(reply) ==
  IF reply.json THEN [isValid |-> reply.isValid, confidence |-> Clamp(reply.confidence)]
  ELSE [isValid |-> FALSE, confidence |-> 0]

\* a test that rejects on the judge's verdict alone, whatever its confidence
rejectOnlyInvalid(v) == ~v.isValid

shouldRejectAnswer(v) == ~v.isValid \/ v.confidence < RejectBelow

\* the answers of the collaborators in one execution of the policy node; an
\* answer the node never asks for is fixed
PolicyReplies ==
  LET judge0 == [throws |-> FALSE, json |-> TRUE, isValid |-> TRUE, confidence |-> 9]
      script(r, d, j, w) == [retrieve |-> r, draft |-> d, judge |-> j, rewrite |-> w]
  IN {script(r, "ok", judge0, "ok") : r \in {"throw", "none"}}
       \cup {script("chunks", "throw", judge0, "ok")}
       \cup UNION {{script("chunks", "ok", j, w) :
                      w \in IF ~j.throws /\ shouldRejectAnswer(parseValidationResult(j))
                            THEN CompleteReplies ELSE {"ok"}} : j \in JudgeReplies}

\* a policy node that drafts an answer whether or not retrieve() found anything
policyDraftingUngrounded(s, retrieve, draft, judge, rewrite, later) ==
  IF ~Falsy(s.userQuery)
  THEN LET thinking == Say("thinking", IF later THEN Aged(Msg("ai", "thinking", <<>>))
                                        ELSE Msg("ai", "thinking", <<>>))
           old == Spread(IF later THEN AgeAll(s.messages) ELSE s.messages)
           out(kind, calls, label) ==
             [Ret([messages |-> old \o thinking \o AI(kind), uiPhase |-> Chatting],
                  calls, label) EXCEPT !.ticked = later]
       IN IF retrieve = "throw" THEN Thrown(<<"retrieve">>, "retrieve_throw")
          ELSE IF draft = "throw" THEN Thrown(<<"retrieve", "complete">>, "draft_throw")
          ELSE out("answer", <<"retrieve", "complete">>, "validated")
  ELSE Goto([uiPhase |-> Chatting], {INFER_INTENT}, <<>>, "policy_no_query")

\* later: the clock moved on during the awaits
policyQuestionNode(s, retrieve, draft, judge, rewrite, later) ==
  IF ~Falsy(s.userQuery)
  THEN LET thinking == Say("thinking", IF later THEN Aged(Msg("ai", "thinking", <<>>))
                                        ELSE Msg("ai", "thinking", <<>>))
           old == Spread(IF later THEN AgeAll(s.messages) ELSE s.messages)
           out(kind, calls, label) ==
             [Ret([messages |-> old \o thinking \o AI(kind), uiPhase |-> Chatting],
                  calls, label) EXCEPT !.ticked = later]
       IN IF retrieve = "throw" THEN Thrown(<<"retrieve">>, "retrieve_throw")
          ELSE IF retrieve = "none" THEN out("decline", <<"retrieve">>, "no_chunks")
          ELSE IF draft = "throw" THEN Thrown(<<"retrieve", "complete">>, "draft_throw")
          ELSE IF judge.throws
               THEN Thrown(<<"retrieve", "complete", "complete">>, "judge_throw")
          ELSE IF shouldRejectAnswer(parseValidationResult(judge))
               THEN IF rewrite = "throw"
                    THEN Thrown(<<"retrieve", "complete", "complete", "complete">>,
                                "rewrite_throw")
                    ELSE out("conservative",
                             <<"retrieve", "complete", "complete", "complete">>, "rejected")
          ELSE out("answer", <<"retrieve", "complete", "complete">>, "validated")
  ELSE Goto([uiPhase |-> Chatting], {INFER_INTENT}, <<>>, "policy_no_query")

\* ------------------------------------------------------- offer pipeline
\* what the model bound to get_availability answers
AgentReplies == {"tool_call", "text", "throw"}

offerOptionsAgentNode(s, reply) ==
  IF reply = "throw" THEN Thrown(<<"complete">>, "agent_throw")
  ELSE Ret([messages |-> Say(reply, Msg(IF reply = "tool_call" THEN "ai_tool_call" ELSE "ai",
                                        "uuid", <<>>))],
           <<"complete">>, reply)

routeAfterOfferOptionsAgent(s) ==
  IF Len(s.messages) > 0 /\ s.messages[Len(s.messages)].type = "ai_tool_call"
  THEN OFFER_OPTIONS_TOOLS
  ELSE OFFER_OPTIONS_FINAL

\* numbers of slots the availability collaborator returns: none, a few, and
\* more than offerOptionsFinalNode shows
AvailCounts == (0..MaxAvail) \cup {SlotCap + MaxAvail}

\* the tool result ToolNode appends: the JSON of the array of slots the tool
\* returned, or the text of the error it threw
ToolReplies ==
  {[type |-> "tool_array", slots |-> SlotSeq(n)] : n \in AvailCounts}
    \cup {[type |-> "tool_error", slots |-> <<>>]}

offerOptionsToolsNode(s, reply) ==
  Ret([messages |-> Say(reply.type, Msg(reply.type, "uuid", reply.slots))],
      <<"availability">>, reply.type)

IsToolMessage(m) == m.type \in {"tool_array", "tool_error"}

\* toolMessages[toolMessages.length - 1]; 0 when there is none
LastToolIndex(msgs) ==
  IF \E i \in 1..Len(msgs) : IsToolMessage(msgs[i])
  THEN CHOOSE i \in 1..Len(msgs) :
         IsToolMessage(msgs[i]) /\ \A k \in (i + 1)..Len(msgs) : ~IsToolMessage(msgs[k])
  ELSE 0

\* the slots as they came, however many
keepAllSlots(slots) == slots

\* slots.slice(0, 9)
SliceCap(slots) == SubSeq(slots, 1, IF Len(slots) < SlotCap THEN Len(slots) ELSE SlotCap)

offerOptionsFinalNode(s) ==
  IF ~Falsy(s.selectedSlotId)
  THEN IF s.selectedSlotId = "none"
       THEN Goto(NoUpdate, {ESCALATE_HUMAN}, <<>>, "resume_none")
       ELSE Goto(NoUpdate, {CONFIRM_TIME}, <<>>, "resume_selected")
  ELSE LET at == LastToolIndex(s.messages)
           failed(kind, label) ==
             Ret([messages |-> Spread(s.messages) \o AI(kind),
                  availableSlots |-> <<>>, escalationNeeded |-> TRUE,
                  availableTimesDoNotWork |-> TRUE], <<>>, label)
       IN IF at = 0 THEN failed("error_no_tool_result", "no_tool_result")
          ELSE IF s.messages[at].type = "tool_error"
               THEN failed("error_service_down", "unparseable")
          ELSE IF Len(s.messages[at].slots) = 0 THEN failed("no_slots", "offer_no_slots")
          ELSE LET slotsToUse == SliceCap(s.messages[at].slots)
               IN Ret([messages |-> Spread(s.messages) \o
                                    AI("offer"),
                       uiPhase |-> SelectingTime, availableSlots |-> slotsToUse,
                       escalationNeeded |-> FALSE, availableTimesDoNotWork |-> FALSE,
                       interrupt |-> SelectTimePayload(slotsToUse)], <<>>, "offered")

\* a router that sends every result of the offer node to confirmation
routeAlwaysConfirm(s) == CONFIRM_TIME

\* a router that sends every result of the offer node to escalation
routeAlwaysEscalate(s) == ESCALATE_HUMAN

routeAfterOfferOptions(s) == IF s.escalationNeeded THEN ESCALATE_HUMAN ELSE CONFIRM_TIME

\* ------------------------------------------------------ confirmation node
InSlots(id, slots) == \E i \in 1..Len(slots) : slots[i] = id

\* what the reschedule tool gives
RescheduleReplies == {"ok", "failed", "throw"}

\* a confirmation node that books as soon as the selection is on offer, whether
\* or not a confirm-time interrupt is pending
confirmTimeUnasked(s, reply) ==
  IF Falsy(s.selectedSlotId)
  THEN IF Len(s.availableSlots) = 0
       THEN Ret([uiPhase |-> SelectingTime, escalationNeeded |-> TRUE], <<>>,
                "confirm_no_slots")
       ELSE Interrupted(SelectTimePayload(s.availableSlots), <<>>, "ask_select")
  ELSE IF s.selectedSlotId = "none"
  THEN Ret([messages |-> Spread(s.messages) \o AI("none_work"),
            userEscalated |-> TRUE, escalationNeeded |-> TRUE,
            availableTimesDoNotWork |-> TRUE, selectedSlotId |-> Undef,
            uiPhase |-> Escalated], <<>>, "none")
  ELSE IF ~InSlots(s.selectedSlotId, s.availableSlots)
  THEN Ret([uiPhase |-> SelectingTime, selectedSlotId |-> Undef], <<>>, "stale")
  ELSE IF ~Falsy(s.eventId)
  THEN IF reply = "ok"
       THEN Ret([messages |-> Spread(s.messages) \o AI("rescheduling"),
                 escalationNeeded |-> FALSE], <<"reschedule">>, "rescheduled")
       ELSE Ret([messages |-> Spread(s.messages) \o
                              AI(IF reply = "failed" THEN "reschedule_failed"
                                                    ELSE "reschedule_error"),
                 uiPhase |-> SelectingTime, escalationNeeded |-> FALSE,
                 selectedSlotId |-> Undef], <<"reschedule">>, "reschedule_failed")
  ELSE Ret([escalationNeeded |-> FALSE], <<>>, "accepted")

confirmTimeNode(s, reply) ==
  IF Falsy(s.selectedSlotId)
  THEN IF Len(s.availableSlots) = 0
       THEN Ret([uiPhase |-> SelectingTime, escalationNeeded |-> TRUE], <<>>,
                "confirm_no_slots")
       ELSE Interrupted(SelectTimePayload(s.availableSlots), <<>>, "ask_select")
  ELSE IF s.selectedSlotId = "none"
  THEN Ret([messages |-> Spread(s.messages) \o AI("none_work"),
            userEscalated |-> TRUE, escalationNeeded |-> TRUE,
            availableTimesDoNotWork |-> TRUE, selectedSlotId |-> Undef,
            uiPhase |-> Escalated], <<>>, "none")
  ELSE IF ~InSlots(s.selectedSlotId, s.availableSlots)
  THEN Ret([uiPhase |-> SelectingTime, selectedSlotId |-> Undef], <<>>, "stale")
  ELSE IF s.interrupt.kind = "ConfirmTime"
  THEN IF s.userConfirmed = "false"
       THEN Ret([uiPhase |-> SelectingTime, escalationNeeded |-> TRUE,
                 selectedSlotId |-> Undef], <<>>, "confirm_rejected")
       ELSE IF ~Falsy(s.eventId)
       THEN IF reply = "ok"
            THEN Ret([messages |-> Spread(s.messages) \o AI("rescheduling"),
                      escalationNeeded |-> FALSE], <<"reschedule">>, "rescheduled")
            ELSE Ret([messages |-> Spread(s.messages) \o
                                   AI(IF reply = "failed" THEN "reschedule_failed"
                                                                 ELSE "reschedule_error"),
                      uiPhase |-> SelectingTime, escalationNeeded |-> FALSE,
                      selectedSlotId |-> Undef], <<"reschedule">>, "reschedule_failed")
       ELSE Ret([escalationNeeded |-> FALSE], <<>>, "accepted")
  ELSE IF s.escalationNeeded
  THEN Ret([uiPhase |-> SelectingTime, escalationNeeded |-> FALSE,
            selectedSlotId |-> Undef], <<>>, "declined_before")
  ELSE Interrupted(ConfirmTimePayload(s.selectedSlotId), <<>>, "ask_confirm")

routeAfterConfirmTime(s) == IF s.escalationNeeded THEN OFFER_OPTIONS_AGENT ELSE NOTIFY_USER

\* ------------------------------------------------------ notification node
\* what calendarService.createEvent gives
CreateReplies == {"ok", "throw"}

\* a notification node that resets the scheduling fields when it has no slot to
\* confirm as well
notifyUserResetting(s, reply) ==
  IF Falsy(s.selectedSlotId) \/ ~InSlots(s.selectedSlotId, s.availableSlots)
  THEN Ret([uiPhase |-> Chatting, userQuery |-> "", selectedSlotId |-> Undef,
            eventId |-> Undef, availableSlots |-> <<>>], <<>>, "notify_nothing")
  ELSE Ret([messages |-> Spread(s.messages) \o
                         AI(IF ~Falsy(s.eventId) THEN "rescheduled" ELSE "scheduled"),
            uiPhase |-> Chatting, userQuery |-> "", selectedSlotId |-> Undef,
            eventId |-> Undef, availableSlots |-> <<>>, preferredDate |-> "",
            preferredProvider |-> ""],
           IF ~Falsy(s.eventId) THEN <<>> ELSE <<"create">>,
           IF Falsy(s.eventId) /\ reply = "throw" THEN "create_failed" ELSE "notified")

\* a notification node that leaves userQuery as it was
notifyUserKeepingQuery(s, reply) ==
  IF Falsy(s.selectedSlotId) THEN Ret(NoUpdate, <<>>, "notify_nothing")
  ELSE IF ~InSlots(s.selectedSlotId, s.availableSlots) THEN Ret(NoUpdate, <<>>, "notify_nothing")
  ELSE Ret([messages |-> Spread(s.messages) \o
                         AI(IF ~Falsy(s.eventId) THEN "rescheduled" ELSE "scheduled"),
            uiPhase |-> Chatting, selectedSlotId |-> Undef,
            eventId |-> Undef, availableSlots |-> <<>>, preferredDate |-> "",
            preferredProvider |-> ""],
           IF ~Falsy(s.eventId) THEN <<>> ELSE <<"create">>,
           IF Falsy(s.eventId) /\ reply = "throw" THEN "create_failed" ELSE "notified")

\* a notification node that awaits createEvent outside any try/catch
notifyUserUncaught(s, reply) ==
  IF Falsy(s.selectedSlotId) THEN Ret(NoUpdate, <<>>, "notify_nothing")
  ELSE IF ~InSlots(s.selectedSlotId, s.availableSlots) THEN Ret(NoUpdate, <<>>, "notify_nothing")
  ELSE IF Falsy(s.eventId) /\ reply = "throw" THEN Thrown(<<"create">>, "create_failed")
  ELSE Ret([messages |-> Spread(s.messages) \o
                         AI(IF ~Falsy(s.eventId) THEN "rescheduled" ELSE "scheduled"),
            uiPhase |-> Chatting, userQuery |-> "", selectedSlotId |-> Undef,
            eventId |-> Undef, availableSlots |-> <<>>, preferredDate |-> "",
            preferredProvider |-> ""],
           IF ~Falsy(s.eventId) THEN <<>> ELSE <<"create">>,
           "notified")

notifyUserNode(s, reply) ==
  IF Falsy(s.selectedSlotId) THEN Ret(NoUpdate, <<>>, "notify_nothing")
  ELSE IF ~InSlots(s.selectedSlotId, s.availableSlots) THEN Ret(NoUpdate, <<>>, "notify_nothing")
  ELSE Ret([messages |-> Spread(s.messages) \o
                         AI(IF ~Falsy(s.eventId) THEN "rescheduled" ELSE "scheduled"),
            uiPhase |-> Chatting, userQuery |-> "", selectedSlotId |-> Undef,
            eventId |-> Undef, availableSlots |-> <<>>, preferredDate |-> "",
            preferredProvider |-> ""],
           IF ~Falsy(s.eventId) THEN <<>> ELSE <<"create">>,
           IF Falsy(s.eventId) /\ reply = "throw" THEN "create_failed" ELSE "notified")

\* -------------------------------------------------------- escalation node
\* what the escalation tool gives
EscalateReplies == {"ok", "throw"}

\* a choice of reason that looks at the slots first
reasonSlotsFirst(s) ==
  IF Len(s.availableSlots) = 0 THEN "no_slots"
  ELSE IF s.twoWeekCapExceeded THEN "beyond_window"
  ELSE IF s.availableTimesDoNotWork THEN "times_do_not_work"
  ELSE "assistance"

escalationReason(s) ==
  IF s.twoWeekCapExceeded THEN "beyond_window"
  ELSE IF s.availableTimesDoNotWork THEN "times_do_not_work"
  ELSE IF Len(s.availableSlots) = 0 THEN "no_slots"
  ELSE "assistance"

\* an escalation node that awaits the escalation tool outside any try/catch
escalateHumanUncaught(s, reply) ==
  IF reply = "throw" THEN Thrown(<<"escalate">>, "escalation_failed")
  ELSE Ret([messages |-> Spread(s.messages) \o AI(escalationReason(s)),
            uiPhase |-> Escalated, availableTimesDoNotWork |-> TRUE, userEscalated |-> TRUE],
           <<"escalate">>, "escalated")

escalateHumanNode(s, reply) ==
  Ret([messages |-> Spread(s.messages) \o AI(escalationReason(s)),
       uiPhase |-> Escalated, availableTimesDoNotWork |-> TRUE, userEscalated |-> TRUE],
      <<"escalate">>, IF reply = "throw" THEN "escalation_failed" ELSE "escalated")

\* ------------------------------------------------------------- the graph
\* buildGraph: the nodes that follow node n, given the state after its update
\* and the goto of its Command
Successors(n, s, goto) ==
  (goto \cup
   (CASE n = INFER_INTENT        -> {routeAfterInferIntent(s)}
      [] n = POLICY_QUESTION     -> {INFER_INTENT}
      [] n = OFFER_OPTIONS_AGENT -> {routeAfterOfferOptionsAgent(s)}
      [] n = OFFER_OPTIONS_TOOLS -> {OFFER_OPTIONS_FINAL}
      [] n = OFFER_OPTIONS_FINAL -> {routeAfterOfferOptions(s)}
      [] n = CONFIRM_TIME        -> {routeAfterConfirmTime(s)}
      [] n = NOTIFY_USER         -> {INFER_INTENT}
      [] n = ESCALATE_HUMAN      -> {INFER_INTENT})) \ {"__end__"}

\* the collaborator calls that act on the world outside
SideEffects == {"reschedule", "create", "escalate"}

RECURSIVE CountIn(_, _)
CountIn(seq, c) ==
  IF Len(seq) = 0 THEN 0 ELSE (IF Head(seq) = c THEN 1 ELSE 0) + CountIn(Tail(seq), c)

\* ResumeRequest.response; kind "none" stands for a body without one
NoResponse == [kind |-> "none", slotId |-> "", confirm |-> FALSE]

\* a slot id that no availability result holds
StaleSlot == "slot_0"

Responses ==
  {[kind |-> "SelectTime", slotId |-> id, confirm |-> FALSE] :
      id \in {SlotName[1], "none", StaleSlot}}
    \cup {[kind |-> "ConfirmTime", slotId |-> "", confirm |-> c] : c \in BOOLEAN}

VARIABLES
  store,    \* threadStore: thread id -> the state last stored, or NoState
  ckpt,     \* the checkpointer: thread id -> the channel values of the graph
  next,     \* the nodes of the next step of the run in progress
  disp,     \* "idle", or the disposition of the last run: running, ended, suspended, error
  hops,     \* steps the run has made
  raised,   \* the payload of the interrupt() that stopped the run
  req,      \* the last HTTP request: its handler, thread, response body, status, and
            \* what it found: the thread's stored state and the interrupt its last
            \* run was stopped by
  run,      \* the run's record: its thread, what held when it started, how often each
            \* node ran and each side effect was called, and of its last step the
            \* branch taken, the calls made and the texts of the messages built
  turns,    \* HTTP requests handled and runs aborted so far
  clock     \* "steady": a millisecond or more passes between any two steps;
            \* "free": two steps may fall into the same millisecond

vars == <<store, ckpt, next, disp, hops, raised, req, run, turns, clock>>

NewRun(t, s, prev) ==
  [thread |-> t, escalatedAtStart |-> s.userEscalated, prevRaised |-> prev,
   startLen |-> Len(s.messages),
   ran |-> [n \in Nodes |-> 0], effects |-> [c \in SideEffects |-> 0],
   last |-> "start", calls |-> <<>>, said |-> <<>>]

NoRun ==
  [thread |-> "", escalatedAtStart |-> FALSE, prevRaised |-> NoInterrupt, startLen |-> 0,
   ran |-> [n \in Nodes |-> 0], effects |-> [c \in SideEffects |-> 0],
   last |-> "none", calls |-> <<>>, said |-> <<>>]

Init ==
  /\ store = [t \in Threads |-> NoState]
  /\ ckpt = [t \in Threads |-> NoState]
  /\ next = {}
  /\ disp = "idle"
  /\ hops = 0
  /\ raised = NoInterrupt
  /\ req = [op |-> "none", thread |-> "", resp |-> NoResponse, status |-> 0,
            pre |-> NoState, pending |-> NoInterrupt]
  /\ run = NoRun
  /\ turns = 0
  /\ clock = "steady"

\* --------------------------------------------------------- HTTP handlers
Accepting == disp # "running" /\ turns < MaxTurns

Answer(op, t, resp, status) ==
  /\ req' = [op |-> op, thread |-> t, resp |-> resp, status |-> status, pre |-> store[t],
             pending |-> IF disp = "suspended" /\ run.thread = t THEN raised ELSE NoInterrupt]
  /\ turns' = turns + 1

\* compiledGraph.stream(input, { streamMode: 'values', configurable: { thread_id } })
\* and the first turn of the for-await loop: the state after the input is stored
StartRun(t, input) ==
  LET s == ApplyInput(Tick(ckpt[t]), Tick(input))
  IN /\ ckpt' = [ckpt EXCEPT ![t] = s]
     /\ store' = [store EXCEPT ![t] = s]
     /\ next' = {INFER_INTENT}
     /\ disp' = "running"
     /\ hops' = 0
     /\ raised' = NoInterrupt
     /\ run' = NewRun(t, s, IF disp = "suspended" THEN raised ELSE NoInterrupt)

\* POST /api/chat
ChatPost(t, text) ==
  /\ Accepting
  /\ IF Falsy(text)
     THEN /\ Answer("chat", t, NoResponse, 400)
          /\ UNCHANGED <<store, ckpt>>
     ELSE LET cur == IF store[t] = NoState THEN InitialState(text) ELSE Tick(store[t])
          IN /\ store' = [store EXCEPT ![t] =
                            [cur EXCEPT !.messages = Append(@, Msg("human", "ms", <<>>)),
                                        !.userQuery = text]]
             /\ ckpt' = [ckpt EXCEPT ![t] = Tick(@)]
             /\ Answer("chat", t, NoResponse, 202)
  /\ UNCHANGED <<next, disp, hops, raised, run, clock>>

\* GET /api/stream
StreamGet(t) ==
  /\ Accepting
  /\ IF store[t] = NoState
     THEN /\ Answer("stream", t, NoResponse, 404)
          /\ UNCHANGED <<store, ckpt, next, disp, hops, raised, run>>
     ELSE /\ Answer("stream", t, NoResponse, 200)
          /\ StartRun(t, store[t])
  /\ UNCHANGED clock

\* a resume that starts from the defaults of a new thread, keeping the messages,
\* the query and the slots
resumedFromDefaults(cur, resp) ==
  [InitialState(cur.userQuery) EXCEPT !.messages = cur.messages,
                                      !.availableSlots = cur.availableSlots,
                                      !.selectedSlotId = resp.slotId]

\* POST /api/resume: the stored state with the response applied to it
Resumed(cur, resp) ==
  CASE resp.kind = "SelectTime"   -> [cur EXCEPT !.selectedSlotId = resp.slotId,
                                                 !.interrupt = NoInterrupt]
    [] resp.kind = "ConfirmTime"  -> [cur EXCEPT !.userConfirmed =
                                                    IF resp.confirm THEN "true" ELSE "false",
                                                 !.interrupt = NoInterrupt]
    [] OTHER -> cur

ResumePost(t, resp) ==
  /\ Accepting
  /\ IF store[t] = NoState
     THEN /\ Answer("resume", t, resp, 404)
          /\ UNCHANGED <<store, ckpt, next, disp, hops, raised, run>>
     ELSE /\ Answer("resume", t, resp, 200)
          /\ StartRun(t, Resumed(store[t], resp))
  /\ UNCHANGED clock

\* ------------------------------------------------------------ the engine
\* the state a step's nodes read; tick: a millisecond or more has passed since
\* the step before
Before(tick) == IF tick THEN Tick(ckpt[run.thread]) ELSE ckpt[run.thread]

RECURSIVE ApplyAll(_, _, _)
ApplyAll(s, rs, i) == IF i > Len(rs) THEN s ELSE ApplyAll(ApplyUpdate(s, rs[i].upd), rs, i + 1)

RECURSIVE AllCalls(_, _)
AllCalls(rs, i) == IF i > Len(rs) THEN <<>> ELSE rs[i].calls \o AllCalls(rs, i + 1)

RECURSIVE AllSaid(_, _)
AllSaid(rs, i) == IF i > Len(rs) THEN <<>> ELSE rs[i].said \o AllSaid(rs, i + 1)

\* a handler that stores the state once, when the run has ended
persistedAtEnd(outcome, chunk, kept) == IF outcome = "ended" THEN chunk ELSE kept

\* for await (const stateChunk of stream) threadStore.set(threadId, stateChunk):
\* the stream yields the state after every step that was applied
Persisted(outcome, chunk, kept) == IF outcome \in {"running", "ended"} THEN chunk ELSE kept

\* whether a millisecond or more has passed since the step before
Ticks == IF clock = "free" THEN BOOLEAN ELSE {TRUE}

\* the same for a node that awaits the model, the retriever or the availability
\* tool before it builds a message: the await takes a millisecond or more
Awaited == {TRUE}

\* one step of the run: the nodes ns (in task order) ran on state s0 and handed
\* back rs. An exception, or two writes to a last-value channel, abort the run;
\* an interrupt() stops it with nothing applied; otherwise the updates are
\* written, the stream yields the new state and the handler stores it.
Step(ns, rs, tick) ==
  LET t == run.thread
      idx == 1..Len(rs)
      s0 == Before(tick)
      later == \E i \in idx : rs[i].ticked
      s1 == IF later THEN Tick(s0) ELSE s0
      aged == IF tick \/ later THEN Tick(store[t]) ELSE store[t]
      thrown == \E i \in idx : rs[i].tag = "throw"
      clash == \E k \in LastValueChannels : \E i, j \in idx :
                 /\ i < j
                 /\ rs[i].tag = "update" /\ rs[j].tag = "update"
                 /\ k \in DOMAIN rs[i].upd /\ k \in DOMAIN rs[j].upd
      stopped == \E i \in idx : rs[i].tag = "interrupt"
      s2 == ApplyAll(s1, rs, 1)
      succ == UNION {Successors(ns[i], s2, rs[i].goto) : i \in idx}
      calls == AllCalls(rs, 1)
      outcome == IF thrown \/ clash THEN "error"
                 ELSE IF stopped THEN "suspended"
                 ELSE IF succ = {} THEN "ended" ELSE "running"
  IN /\ hops' = hops + 1
     /\ run' = [run EXCEPT
                  !.ran = [n \in Nodes |-> @[n] + (IF \E i \in idx : ns[i] = n THEN 1 ELSE 0)],
                  !.effects = [c \in SideEffects |-> @[c] + CountIn(calls, c)],
                  !.last = rs[Len(rs)].label,
                  !.calls = calls,
                  !.said = AllSaid(rs, 1)]
     /\ disp' = outcome
     /\ raised' = IF outcome = "suspended"
                  THEN (LET i == CHOOSE i \in idx : rs[i].tag = "interrupt" IN rs[i].raise)
                  ELSE NoInterrupt
     /\ next' = IF outcome = "running" THEN succ ELSE {}
     /\ ckpt' = [ckpt EXCEPT ![t] = IF outcome \in {"running", "ended"} THEN s2 ELSE s1]
     /\ store' = [store EXCEPT ![t] = Persisted(outcome, s2, aged)]
     /\ turns' = turns + (IF outcome = "error" THEN 1 ELSE 0)
     /\ UNCHANGED <<req, clock>>

Ready(ns) == disp = "running" /\ next = ns /\ hops < MaxHops

InferIntentStep ==
  /\ Ready({INFER_INTENT})
  /\ \E tick \in Awaited, reply \in ClassifierReplies :
       Step(<<INFER_INTENT>>, <<inferIntentNode(Before(tick), reply)>>, tick)

PolicyQuestionStep ==
  /\ Ready({POLICY_QUESTION})
  /\ \E tick \in Awaited, later \in Ticks, r \in PolicyReplies :
       Step(<<POLICY_QUESTION>>,
            <<policyQuestionNode(Before(tick), r.retrieve, r.draft, r.judge, r.rewrite, later)>>,
            tick)

OfferOptionsAgentStep ==
  /\ Ready({OFFER_OPTIONS_AGENT})
  /\ \E tick \in Awaited, reply \in AgentReplies :
       Step(<<OFFER_OPTIONS_AGENT>>, <<offerOptionsAgentNode(Before(tick), reply)>>, tick)

OfferOptionsToolsStep ==
  /\ Ready({OFFER_OPTIONS_TOOLS})
  /\ \E tick \in Awaited, reply \in ToolReplies :
       Step(<<OFFER_OPTIONS_TOOLS>>, <<offerOptionsToolsNode(Before(tick), reply)>>, tick)

OfferOptionsFinalStep ==
  /\ Ready({OFFER_OPTIONS_FINAL})
  /\ \E tick \in Ticks :
       Step(<<OFFER_OPTIONS_FINAL>>, <<offerOptionsFinalNode(Before(tick))>>, tick)

ConfirmTimeStep ==
  /\ Ready({CONFIRM_TIME})
  /\ \E tick \in Ticks, reply \in RescheduleReplies :
       Step(<<CONFIRM_TIME>>, <<confirmTimeNode(Before(tick), reply)>>, tick)

NotifyUserStep ==
  /\ Ready({NOTIFY_USER})
  /\ \E tick \in Ticks, reply \in CreateReplies :
       Step(<<NOTIFY_USER>>, <<notifyUserNode(Before(tick), reply)>>, tick)

EscalateHumanStep ==
  /\ Ready({ESCALATE_HUMAN})
  /\ \E tick \in Ticks, reply \in EscalateReplies :
       Step(<<ESCALATE_HUMAN>>, <<escalateHumanNode(Before(tick), reply)>>, tick)

\* offerOptionsFinalNode sent the run to escalate_human by goto while its
\* conditional edge chose confirm_time: both run in the same step
EscalateAndConfirmStep ==
  /\ Ready({ESCALATE_HUMAN, CONFIRM_TIME})
  /\ \E tick \in Ticks, e \in EscalateReplies, r \in RescheduleReplies :
       Step(<<CONFIRM_TIME, ESCALATE_HUMAN>>,
            <<confirmTimeNode(Before(tick), r), escalateHumanNode(Before(tick), e)>>, tick)

\* the run has made MaxHops steps and is not finished: the engine aborts it
RecursionLimit ==
  /\ disp = "running" /\ next # {} /\ hops >= MaxHops
  /\ disp' = "error"
  /\ next' = {}
  /\ turns' = turns + 1
  /\ UNCHANGED <<store, ckpt, hops, raised, req, run, clock>>

Next ==
  \/ \E t \in ChatThreads, text \in Texts \cup {""} : ChatPost(t, text)
  \/ \E t \in Threads : StreamGet(t)
  \/ \E t \in Threads, resp \in Responses : ResumePost(t, resp)
  \/ InferIntentStep
  \/ PolicyQuestionStep
  \/ OfferOptionsAgentStep
  \/ OfferOptionsToolsStep
  \/ OfferOptionsFinalStep
  \/ ConfirmTimeStep
  \/ NotifyUserStep
  \/ EscalateHumanStep
  \/ EscalateAndConfirmStep
  \/ RecursionLimit

Spec == Init /\ [][Next]_vars

\* ------------------------------------------------- overlapping requests
\* POST /api/chat taken up between two steps of a run of the same thread: the
\* handler of the run is waiting for the stream's next chunk
ChatPostMidRun(t, text) ==
  /\ disp = "running" /\ run.thread = t /\ turns < MaxTurns
  /\ IF Falsy(text)
     THEN /\ Answer("chat", t, NoResponse, 400)
          /\ UNCHANGED <<store, ckpt>>
     ELSE LET cur == IF store[t] = NoState THEN InitialState(text) ELSE Tick(store[t])
          IN /\ store' = [store EXCEPT ![t] =
                            [cur EXCEPT !.messages = Append(@, Msg("human", "ms", <<>>)),
                                        !.userQuery = text]]
             /\ ckpt' = [ckpt EXCEPT ![t] = Tick(@)]
             /\ Answer("chat", t, NoResponse, 202)
  /\ UNCHANGED <<next, disp, hops, raised, run, clock>>

OverlapNext ==
  \/ Next
  \/ \E t \in ChatThreads, text \in Texts \cup {""} : ChatPostMidRun(t, text)

OverlapSpec == Init /\ [][OverlapNext]_vars

\* ------------------------------------------------------- the free clock
\* The program of Spec on a machine fast enough for two steps of a run to fall
\* into one millisecond of Date.now().
ClockInit ==
  /\ store = [t \in Threads |-> NoState]
  /\ ckpt = [t \in Threads |-> NoState]
  /\ next = {}
  /\ disp = "idle"
  /\ hops = 0
  /\ raised = NoInterrupt
  /\ req = [op |-> "none", thread |-> "", resp |-> NoResponse, status |-> 0,
            pre |-> NoState, pending |-> NoInterrupt]
  /\ run = NoRun
  /\ turns = 0
  /\ clock = "free"

ClockSpec == ClockInit /\ [][Next]_vars

\* ------------------------------------------------- a node on a given state
\* The nodes are functions of the state they are entered with. NodeSpec starts
\* the graph at one of the scheduling nodes on any state of a bounded set of
\* values of State, and lets the run go on from there.
EntryNodes == {OFFER_OPTIONS_FINAL, CONFIRM_TIME, NOTIFY_USER, ESCALATE_HUMAN}

EntryStates ==
  {[InitialState("q") EXCEPT
      !.messages = <<Aged(Msg("human", "ms", <<>>))>>,
      !.selectedSlotId = id, !.availableSlots = slots, !.interrupt = int,
      !.escalationNeeded = en, !.eventId = ev,
      !.twoWeekCapExceeded = cap, !.availableTimesDoNotWork = dnw] :
     id \in {Undef, "none", SlotName[1], StaleSlot},
     slots \in {SlotSeq(n) : n \in 0..MaxAvail},
     int \in {NoInterrupt, SelectTimePayload(SlotSeq(1)), ConfirmTimePayload(SlotName[1])},
     en \in BOOLEAN, ev \in {"", "event_1"}, cap \in BOOLEAN, dnw \in BOOLEAN}

NodeInit ==
  \E s \in EntryStates, n \in EntryNodes :
    /\ store = [t \in Threads |-> IF t \in ChatThreads THEN s ELSE NoState]
    /\ ckpt = store
    /\ next = {n}
    /\ disp = "running"
    /\ hops = 0
    /\ raised = NoInterrupt
    /\ req = [op |-> "none", thread |-> "", resp |-> NoResponse, status |-> 0,
              pre |-> NoState, pending |-> NoInterrupt]
    /\ run = NewRun(CHOOSE t \in ChatThreads : TRUE, s, NoInterrupt)
    /\ turns = 0
    /\ clock = "steady"

NodeNext ==
  \/ InferIntentStep
  \/ PolicyQuestionStep
  \/ OfferOptionsAgentStep
  \/ OfferOptionsToolsStep
  \/ OfferOptionsFinalStep
  \/ ConfirmTimeStep
  \/ NotifyUserStep
  \/ EscalateHumanStep
  \/ EscalateAndConfirmStep
  \/ RecursionLimit

NodeSpec == NodeInit /\ [][NodeNext]_vars

\* ----------------------------------------------------------- properties
OfferNodes == {OFFER_OPTIONS_AGENT, OFFER_OPTIONS_TOOLS, OFFER_OPTIONS_FINAL}

Blank(q) == Falsy(q) \/ TrimEmpty(q)

\* the branches in which a terminal node answers the utterance
TerminalLabels ==
  {"no_chunks", "rejected", "validated", "notified", "create_failed", "escalated",
   "escalation_failed"}

\* the last request was a resume that the handler accepted
ResumeAccepted == req.op = "resume" /\ req.status = 200

\* a response of the kind of the interrupt the thread was suspended on, naming
\* (for a select-time interrupt) one of the offered slots or "none"
ValidResponse ==
  /\ req.pending.kind = req.resp.kind
  /\ req.resp.kind = "SelectTime" =>
       (req.resp.slotId = "none" \/ InSlots(req.resp.slotId, req.pending.slots))

\* the stored state of the request's thread is what the request found
StoreUntouched == Tick(store[req.thread]) = Tick(req.pre)

\* C1: when a thread suspended on an interrupt of kind K is resumed with a valid
\* response of kind K, the run starts with state.interrupt cleared, and if it is
\* suspended again it is not on the same interrupt with the same payload.
C1_ResumeRoundTrip ==
  (ResumeAccepted /\ ValidResponse) =>
     /\ (disp = "running" /\ hops = 0) => store[req.thread].interrupt = NoInterrupt
     /\ disp = "suspended" => raised # req.pending

\* C2: in a run that starts on a thread whose userEscalated is true, no node of
\* the offer pipeline runs and none is ever scheduled, whatever the classifier says.
C2_EscalationSticky ==
  run.escalatedAtStart =>
    \A n \in OfferNodes : run.ran[n] = 0 /\ n \notin next

\* C2 witness: on an escalated thread the classifier answered "scheduling" and the
\* run went to the policy node
C2_Witness ==
  /\ run.escalatedAtStart
  /\ run.last = "classify_scheduling"
  /\ next = {POLICY_QUESTION}

\* C3: when a thread suspended on the confirmation of a slot of availableSlots,
\* with no eventId, is resumed with confirm = true, the run - unless a step of it
\* fails - does not stop before the notification node has run, CreateAppointment
\* has been called once, the confirmation is the last thing said, and the
\* scheduling fields are back at their defaults.
C3_HappyPathBooks ==
  (/\ ResumeAccepted
   /\ req.resp.kind = "ConfirmTime" /\ req.resp.confirm
   /\ req.pending.kind = "ConfirmTime"
   /\ InSlots(req.pending.selectedSlotId, req.pre.availableSlots)
   /\ Falsy(req.pre.eventId)
   /\ disp \in {"ended", "suspended"})
  => /\ disp = "ended"
     /\ run.ran[NOTIFY_USER] = 1
     /\ run.effects["create"] = 1
     /\ LET s == store[req.thread]
        IN /\ Falsy(s.selectedSlotId) /\ Falsy(s.eventId) /\ Falsy(s.userQuery)
           /\ Falsy(s.preferredDate) /\ Falsy(s.preferredProvider)
           /\ s.availableSlots = <<>>

\* C4: a resume whose kind differs from the kind of the pending interrupt of the
\* stored state is answered with an error status, starts no run and leaves the
\* stored state as it was.
C4_MismatchRejected ==
  (/\ req.op = "resume"
   /\ req.pre # NoState
   /\ req.pre.interrupt.kind \notin {"none", req.resp.kind})
  => (req.status >= 400 /\ disp # "running" /\ StoreUntouched)

\* C5: a resume on an existing thread that has no pending interrupt is answered
\* with an error status, starts no run and leaves the stored state as it was; a
\* resume or stream request for an unknown thread is answered 404 and leaves the
\* thread without an entry in the store.
C5_NoPendingRejected ==
  /\ (/\ req.op = "resume"
      /\ req.pre # NoState
      /\ req.pre.interrupt.kind = "none" /\ req.pending.kind = "none")
     => (req.status >= 400 /\ disp # "running" /\ StoreUntouched)
  /\ (req.op \in {"resume", "stream"} /\ req.pre = NoState)
     => (req.status = 404 /\ store[req.thread] = NoState)

\* C6: the stored interrupt of a thread is set exactly when the thread's run is
\* suspended, and then it has the kind of the interrupt that suspended the run.
C6_InterruptIffSuspended ==
  \A t \in Threads :
    store[t] # NoState =>
      /\ store[t].interrupt.kind # "none" => (disp = "suspended" /\ run.thread = t)
      /\ (disp = "suspended" /\ run.thread = t) => store[t].interrupt.kind = raised.kind

C8_PolicyTurnEnds ==
  [][(/\ disp = "running"
      /\ req.op = "stream" /\ run.startLen = 1
      /\ run.ran[POLICY_QUESTION] = 1
      /\ run.last = "validated" /\ run.said = <<"thinking", "answer">>)
     => (disp' = "ended" /\ run'.ran[POLICY_QUESTION] = 1)]_vars

\* C9: a run that starts with an empty or blank userQuery on a thread that has
\* messages makes one step, the intent node's, ends with disposition ended, and
\* leaves the messages as they were.
C9_IdleTurnEnds ==
  (/\ disp # "idle"
   /\ Blank(ckpt[run.thread].userQuery)
   /\ run.startLen > 0)
  => \/ disp = "running" /\ hops = 0
     \/ /\ disp = "ended" /\ hops = 1
        /\ run.ran[INFER_INTENT] = 1 /\ run.last = "no_query" /\ run.said = <<>>
        /\ Len(ckpt[run.thread].messages) = run.startLen

\* C9 witness: a run on a blank utterance has ended after its one step
C9_Witness ==
  /\ disp = "ended" /\ hops = 1
  /\ ckpt[run.thread].userQuery = "  "
  /\ run.startLen > 0

\* C10: no step - a handler or a node's update - makes the messages of a thread
\* fewer, in the thread store or in the graph's own state.
C10_AppendMonotone ==
  [][\A t \in Threads :
       /\ store[t] # NoState =>
            (store'[t] # NoState /\ Len(store'[t].messages) >= Len(store[t].messages))
       /\ ckpt[t] # NoState =>
            (ckpt'[t] # NoState /\ Len(ckpt'[t].messages) >= Len(ckpt[t].messages))]_vars

\* C10 witness: the agent's update, a list of one message, has been merged into a
\* longer list
C10_Witness ==
  /\ disp = "running" /\ run.last = "tool_call"
  /\ Len(ckpt[run.thread].messages) > 2
  /\ Len(store[run.thread].messages) = Len(ckpt[run.thread].messages)

\* the last tool result of the run's thread, as the graph holds it
LastToolResult ==
  LET msgs == ckpt[run.thread].messages
  IN msgs[LastToolIndex(msgs)]

\* C11: availableSlots never has more than 9 entries, in the store or in the
\* graph's state, and no select-time interrupt - stored in the state or raised by
\* a node - carries more than 9 slots, however many the availability tool returns.
C11_SlotCap ==
  /\ \A t \in Threads :
       /\ store[t] # NoState =>
            (Len(store[t].availableSlots) <= SlotCap /\ Len(store[t].interrupt.slots) <= SlotCap)
       /\ ckpt[t] # NoState =>
            (Len(ckpt[t].availableSlots) <= SlotCap /\ Len(ckpt[t].interrupt.slots) <= SlotCap)
  /\ Len(raised.slots) <= SlotCap

\* C11 witness: the tool returned more than 9 slots and the run is suspended on a
\* select-time interrupt that carries 9 of them
C11_Witness ==
  /\ disp = "suspended" /\ raised.kind = "SelectTime"
  /\ LastToolIndex(ckpt[run.thread].messages) > 0
  /\ Len(LastToolResult.slots) > SlotCap
  /\ Len(raised.slots) = SlotCap
  /\ Len(store[run.thread].availableSlots) = SlotCap

\* C12: whenever the policy node is about to run on a query and retrieve() finds
\* no chunk, then whatever the completion calls would answer the node makes none:
\* it returns an update that appends the progress message and the fixed decline
\* message and nothing else.
C12_GroundedDecline ==
  (disp = "running" /\ POLICY_QUESTION \in next) =>
    \A d, w \in CompleteReplies, j \in JudgeReplies, later \in BOOLEAN :
      LET r == policyQuestionNode(Tick(ckpt[run.thread]), "none", d, j, w, later)
      IN /\ r.tag = "update"
         /\ CountIn(r.calls, "complete") = 0
         /\ r.said = <<"thinking", "decline">>
         /\ Len(r.upd.messages) = Len(ckpt[run.thread].messages) + 2

\* C12 witness: the policy node has run, retrieve() found nothing, and the decline
\* message was appended without a completion call
C12_Witness ==
  /\ run.last = "no_chunks"
  /\ run.calls = <<"retrieve">>
  /\ run.said = <<"thinking", "decline">>

\* the first run of a thread, started by GET /stream after the first POST /chat
FreshRun == req.op = "stream" /\ req.status = 200 /\ run.startLen = 1

ThrowLabels == {"retrieve_throw", "draft_throw", "judge_throw", "rewrite_throw", "agent_throw"}

\* C14: when a thread suspended on a select-time interrupt, its utterance still
\* in userQuery, is resumed with slotId = "none", the run - unless a collaborator
\* throws - finishes with
\* disposition ended, userEscalated true, uiPhase Escalated, and the escalation
\* tool called exactly once.
C14_NoneEscalates ==
  (/\ ResumeAccepted
   /\ req.pending.kind = "SelectTime"
   /\ req.resp.kind = "SelectTime" /\ req.resp.slotId = "none"
   /\ ~Blank(req.pre.userQuery)
   /\ disp # "running"
   /\ run.last \notin ThrowLabels)
  => /\ disp = "ended"
     /\ store[req.thread].userEscalated
     /\ store[req.thread].uiPhase = Escalated
     /\ run.effects["escalate"] = 1

\* C15: when retrieve() or a completion call throws in the policy node, the run is
\* not aborted: the node's step appends one apology message and the run goes on
\* to its end.
C15_PolicyContainment ==
  run.last \in {"retrieve_throw", "draft_throw", "judge_throw", "rewrite_throw"} =>
    (disp # "error" /\ Len(run.said) = 1)

\* C16: a run makes at most MaxHops steps and has one of the dispositions running,
\* ended, suspended, error; and a run in which the policy, notification or
\* escalation node has run does not reach the step limit: it stops at the intent
\* node on an empty userQuery before that.
C16_HopCap ==
  /\ hops <= MaxHops
  /\ disp \in {"idle", "running", "ended", "suspended", "error"}
  /\ (disp = "running" /\ next # {} /\ hops >= MaxHops) =>
       \A n \in {POLICY_QUESTION, NOTIFY_USER, ESCALATE_HUMAN} : run.ran[n] = 0

\* C17: userEscalated, once true for a thread, stays true through every handler
\* and every step, in the thread store and in the graph's state.
C17_EscalatedMonotone ==
  [][\A t \in Threads :
       /\ (store[t] # NoState /\ store[t].userEscalated) =>
            (store'[t] # NoState /\ store'[t].userEscalated)
       /\ (ckpt[t] # NoState /\ ckpt[t].userEscalated) =>
            (ckpt'[t] # NoState /\ ckpt'[t].userEscalated)]_vars

\* C17 witness: a resume has started a second run on an escalated thread, its
\* intent node has run, and the thread is still escalated
C17_Witness ==
  /\ ResumeAccepted
  /\ run.escalatedAtStart /\ run.ran[INFER_INTENT] = 1
  /\ store[run.thread].userEscalated /\ ckpt[run.thread].userEscalated

\* the last request started the run on record
RunOfRequest == req.op \in {"stream", "resume"} /\ req.status = 200 /\ disp # "idle"

\* C18: from the start of a run on, after every step and whatever the run's
\* disposition - running, ended, suspended or aborted - the thread store holds
\* the state of the graph after the last step that was applied.
C18_PersistedEachStep ==
  RunOfRequest => Tick(store[run.thread]) = Tick(ckpt[run.thread])

\* C18 witness: a run was aborted after steps that added messages, and the store
\* holds what those steps left
C18_Witness ==
  /\ RunOfRequest /\ disp = "error" /\ hops > 2
  /\ Len(store[run.thread].messages) > run.startLen + 1
  /\ Tick(store[run.thread]) = Tick(ckpt[run.thread])

\* slot lists a patch may carry
SlotLists == {SlotSeq(n) : n \in 0..(MaxAvail + 1)}

ScalarPatches ==
  {[uiPhase |-> p] : p \in {Chatting, SelectingTime, ConfirmingTime, Escalated}}
    \cup {[selectedSlotId |-> id] : id \in {SlotName[1], "none", Undef}}
    \cup {[userQuery |-> q] : q \in Texts \cup {""}}
    \cup {[intent |-> i] : i \in {POLICY_QUESTION, OFFER_OPTIONS, "unknown"}}
    \cup {[userEscalated |-> e, escalationNeeded |-> n, availableTimesDoNotWork |-> a] :
            e, n, a \in BOOLEAN}
    \cup {[uiPhase |-> SelectingTime, escalationNeeded |-> n, selectedSlotId |-> Undef] :
            n \in BOOLEAN}

\* C20: for every state of a thread and every patch of scalar channels, applying
\* the patch twice gives the state that applying it once gives.
C20_ScalarIdempotent ==
  \A t \in Threads :
    ckpt[t] # NoState =>
      \A u \in ScalarPatches :
        ApplyUpdate(ApplyUpdate(ckpt[t], u), u) = ApplyUpdate(ckpt[t], u)

\* C20 witness: the confirmation node's scalar patch for a slot that is not on
\* offer has been applied to a thread that holds messages and slots
C20_Witness ==
  /\ disp = "running" /\ run.last = "stale"
  /\ Len(ckpt[run.thread].availableSlots) > 0
  /\ Falsy(ckpt[run.thread].selectedSlotId)
  /\ ckpt[run.thread].uiPhase = SelectingTime

\* the branches of the intent node
IntentLabels ==
  {"no_query", "classify_throw", "classify_scheduling", "classify_agent_label",
   "classify_policy"}

\* the branches of the confirmation node
ConfirmLabels ==
  {"confirm_no_slots", "ask_select", "none", "stale", "confirm_rejected", "rescheduled",
   "reschedule_failed", "accepted", "declined_before", "ask_confirm"}

\* the branches in which the offer node found nothing to offer
OfferFailLabels == {"no_tool_result", "unparseable", "offer_no_slots"}

\* no booking, reschedule or escalation call was made in the run
NoEffects == \A c \in SideEffects : run.effects[c] = 0

\* C21: after the intent node the run ends if userQuery is empty or blank; else it
\* goes to the policy node if userEscalated; else to the offer agent exactly when
\* the classifier said scheduling - by either of the labels NodeName.OFFER_OPTIONS
\* and NodeName.OFFER_OPTIONS_AGENT, the one its prompt asks for; else to the
\* policy node. One successor at most.
C21_IntentRouting ==
  (disp \in {"running", "ended"} /\ run.last \in IntentLabels) =>
    LET s == ckpt[run.thread]
    IN next = IF Blank(s.userQuery) THEN {}
              ELSE IF s.userEscalated THEN {POLICY_QUESTION}
              ELSE IF run.last \in {"classify_scheduling", "classify_agent_label"}
                   THEN {OFFER_OPTIONS_AGENT}
              ELSE {POLICY_QUESTION}

\* C22: when the completion call of the offer agent throws, or the availability
\* tool fails, the run is not aborted.
C22_OfferContainment ==
  run.last \in {"agent_throw", "tool_error"} => disp # "error"

\* C23: when the confirmation node is entered with selectedSlotId = "none", its
\* update appends one message, sets userEscalated and escalationNeeded, clears
\* selectedSlotId and sets uiPhase = Escalated, and the node that follows is none
\* of the offer pipeline.
C23_NoneTerminal ==
  (/\ disp = "running" /\ CONFIRM_TIME \in next
   /\ ckpt[run.thread].selectedSlotId = "none")
  => \A reply \in RescheduleReplies :
       LET s == Tick(ckpt[run.thread])
           r == confirmTimeNode(s, reply)
           s2 == ApplyUpdate(s, r.upd)
       IN /\ r.tag = "update" /\ r.said = <<"none_work">>
          /\ s2.userEscalated /\ s2.escalationNeeded
          /\ Falsy(s2.selectedSlotId) /\ s2.uiPhase = Escalated
          /\ Successors(CONFIRM_TIME, s2, r.goto) \cap OfferNodes = {}

\* C24: when a thread suspended on the confirmation of a slot on offer is resumed
\* with confirm = false, the confirmation node - the first time the run enters
\* it - takes the rejection: it clears selectedSlotId, sets escalationNeeded, the
\* offer agent follows, and no booking, reschedule or escalation call is made.
C24_RejectReoffers ==
  (/\ ResumeAccepted
   /\ req.resp.kind = "ConfirmTime" /\ ~req.resp.confirm
   /\ req.pending.kind = "ConfirmTime"
   /\ InSlots(req.pending.selectedSlotId, req.pre.availableSlots)
   /\ run.ran[CONFIRM_TIME] = 1 /\ run.last \in ConfirmLabels)
  => /\ run.last = "confirm_rejected"
     /\ disp = "running" /\ next = {OFFER_OPTIONS_AGENT}
     /\ Falsy(ckpt[run.thread].selectedSlotId)
     /\ ckpt[run.thread].escalationNeeded
     /\ NoEffects

C26_StaleRecovers ==
  run.last = "stale" =>
    /\ disp = "running"
    /\ Falsy(ckpt[run.thread].selectedSlotId)
    /\ NoEffects
    /\ next \in {{OFFER_OPTIONS_AGENT}, {CONFIRM_TIME}}

\* C27: when the offer node, entered without a selection, finds no tool result,
\* cannot parse it or finds no slot in it, its step sets escalationNeeded and
\* availableTimesDoNotWork, empties availableSlots, appends one message, leaves
\* state.interrupt as it was, raises no interrupt, and the escalation node follows.
C27_OfferFailsToEscalation ==
  [][(disp = "running" /\ next = {OFFER_OPTIONS_FINAL} /\ run'.last \in OfferFailLabels)
     => LET s == ckpt[run.thread]
            s2 == ckpt'[run.thread]
        IN /\ disp' = "running" /\ next' = {ESCALATE_HUMAN}
           /\ s2.escalationNeeded /\ s2.availableTimesDoNotWork
           /\ s2.availableSlots = <<>>
           /\ Len(s2.messages) = Len(s.messages) + 1 /\ Len(run'.said) = 1
           /\ s2.interrupt = s.interrupt /\ raised' = NoInterrupt
           /\ store'[run.thread] = s2]_vars

\* C27 witness: the tool returned no slot, the offer node apologised, and the
\* escalation node is next
C27_Witness ==
  /\ disp = "running" /\ run.last = "offer_no_slots"
  /\ next = {ESCALATE_HUMAN}
  /\ ckpt[run.thread].escalationNeeded
  /\ run.said = <<"no_slots">>

\* C28: no step of a run has more than one node, and after the offer node was
\* entered on a resume with selectedSlotId set, the one node that follows is the
\* one routeAfterOfferOptions names.
C28_OneSuccessor ==
  /\ Cardinality(next) <= 1
  /\ (disp = "running" /\ run.last \in {"resume_none", "resume_selected"}) =>
       next = {routeAfterOfferOptions(ckpt[run.thread])}

\* the reason that the fixed priority gives for state s
ReasonByPriority(s, reason) ==
  /\ s.twoWeekCapExceeded => reason = "beyond_window"
  /\ (~s.twoWeekCapExceeded /\ s.availableTimesDoNotWork) => reason = "times_do_not_work"
  /\ (~s.twoWeekCapExceeded /\ ~s.availableTimesDoNotWork /\ s.availableSlots = <<>>) =>
       reason = "no_slots"
  /\ (~s.twoWeekCapExceeded /\ ~s.availableTimesDoNotWork /\ s.availableSlots # <<>>) =>
       reason = "assistance"

C30_EscalationContained ==
  (disp = "running" /\ ESCALATE_HUMAN \in next) =>
    LET s == Tick(ckpt[run.thread])
        ok == escalateHumanNode(s, "ok")
        ko == escalateHumanNode(s, "throw")
    IN /\ ko.tag = "update" /\ ko.upd = ok.upd /\ ko.goto = ok.goto
       /\ ko.said = <<escalationReason(s)>>
       /\ ko.upd.uiPhase = Escalated
       /\ ko.upd.userEscalated /\ ko.upd.availableTimesDoNotWork

\* C30 witness: the escalation tool threw and the thread is escalated all the same
C30_Witness ==
  /\ disp = "running" /\ run.last = "escalation_failed"
  /\ ckpt[run.thread].uiPhase = Escalated
  /\ ckpt[run.thread].userEscalated
  /\ ckpt[run.thread].availableTimesDoNotWork
  /\ Len(ckpt[run.thread].messages) > run.startLen

\* C31: whenever the notification node is entered, it calls createEvent at most
\* once, and only when eventId is unset; and when createEvent throws, the node's
\* result is the update it gives when the call succeeds: the confirmation message
\* appended and the scheduling fields reset.
C31_CreateGuarded ==
  (disp = "running" /\ NOTIFY_USER \in next) =>
    LET s == Tick(ckpt[run.thread])
        ok == notifyUserNode(s, "ok")
        ko == notifyUserNode(s, "throw")
    IN /\ \A r \in {ok, ko} :
            /\ CountIn(r.calls, "create") <= 1
            /\ CountIn(r.calls, "create") = 1 => Falsy(s.eventId)
            /\ r.calls \in {<<>>, <<"create">>}
       /\ ko.tag = "update" /\ ko.upd = ok.upd /\ ko.goto = ok.goto /\ ko.said = ok.said
       /\ InSlots(s.selectedSlotId, s.availableSlots) =>
            /\ Len(ko.said) = 1
            /\ ApplyUpdate(s, ko.upd).availableSlots = <<>>
            /\ Falsy(ApplyUpdate(s, ko.upd).selectedSlotId)

\* C31 witness: createEvent threw for a new booking, and the confirmation was
\* appended and the scheduling fields reset all the same
C31_Witness ==
  /\ run.last = "create_failed" /\ run.calls = <<"create">>
  /\ run.effects["create"] = 1
  /\ run.said = <<"scheduled">>
  /\ ckpt[run.thread].uiPhase = Chatting
  /\ ckpt[run.thread].availableSlots = <<>>
  /\ Falsy(ckpt[run.thread].selectedSlotId)

\* C32: when the notification node runs on a state whose selectedSlotId is
\* empty or names no entry of availableSlots (an empty list included), its step
\* leaves every field of the state as it was, in the graph and in the store,
\* appends no message, calls no collaborator, and does not abort the run.
C32_NotifyNoOp ==
  [][(/\ disp = "running" /\ next = {NOTIFY_USER} /\ hops' = hops + 1
      /\ ~InSlots(ckpt[run.thread].selectedSlotId, ckpt[run.thread].availableSlots))
     => /\ Tick(ckpt'[run.thread]) = Tick(ckpt[run.thread])
        /\ Tick(store'[run.thread]) = Tick(ckpt[run.thread])
        /\ run'.said = <<>> /\ run'.calls = <<>>
        /\ run'.effects = run.effects
        /\ disp' # "error"]_vars

\* C32 witness: the notification node has run on a selection that is not on
\* offer, and the selection and the slots are still there
C32_Witness ==
  /\ run.last = "notify_nothing" /\ run.ran[NOTIFY_USER] = 1
  /\ ckpt[run.thread].selectedSlotId = StaleSlot
  /\ Len(ckpt[run.thread].availableSlots) > 0
  /\ run.said = <<>> /\ run.calls = <<>>

\* the branches in which the notification node confirms a booking
NotifiedLabels == {"notified", "create_failed"}

\* C33: once the notification node has confirmed a slot, uiPhase is Chatting and
\* userQuery, selectedSlotId, eventId, availableSlots, preferredDate and
\* preferredProvider are empty; the intent node is next, and its step appends
\* nothing and ends the run with disposition ended.
C33_BackToIdle ==
  [][(disp = "running" /\ run.last \in NotifiedLabels)
     => LET s == ckpt[run.thread]
        IN /\ s.uiPhase = Chatting
           /\ Falsy(s.userQuery) /\ Falsy(s.selectedSlotId) /\ Falsy(s.eventId)
           /\ s.availableSlots = <<>>
           /\ s.preferredDate = "" /\ s.preferredProvider = ""
           /\ next = {INFER_INTENT}
           /\ disp' = "ended" /\ run'.last = "no_query"
           /\ run'.said = <<>> /\ run'.calls = <<>>
           /\ Len(ckpt'[run.thread].messages) = Len(s.messages)
           /\ Tick(store'[run.thread]) = Tick(ckpt'[run.thread])]_vars

\* C33 witness: a new booking was confirmed, the intent node ran after it on the
\* emptied query, and the run has ended
C33_Witness ==
  /\ disp = "ended" /\ run.last = "no_query"
  /\ run.ran[NOTIFY_USER] = 1 /\ run.effects["create"] = 1
  /\ run.ran[INFER_INTENT] = 1
  /\ ckpt[run.thread].uiPhase = Chatting
  /\ ckpt[run.thread].availableSlots = <<>>
  /\ Len(ckpt[run.thread].messages) = run.startLen + 1

\* C34: whenever the policy node is about to run and retrieval and the draft
\* succeed, then for every reply of the judge that is not an exception: the draft
\* is rejected exactly when the reply is not a well-formed result, or has
\* isValid = false, or a confidence below 0.5; a rejected draft is never in the
\* node's result - the answer appended is the conservative rewrite, or nothing when
\* the rewrite throws - and a draft that is not rejected is the answer appended.
C34_RejectedNeverDelivered ==
  (disp = "running" /\ POLICY_QUESTION \in next /\ ~Falsy(ckpt[run.thread].userQuery)) =>
    \A j \in {x \in JudgeReplies : ~x.throws}, w \in CompleteReplies, later \in BOOLEAN :
      LET rejected == ~j.json \/ ~j.isValid \/ j.confidence < RejectBelow
          r == policyQuestionNode(Tick(ckpt[run.thread]), "chunks", "ok", j, w, later)
      IN /\ shouldRejectAnswer(parseValidationResult(j)) <=> rejected
         /\ rejected =>
              /\ \A i \in 1..Len(r.said) : r.said[i] # "answer"
              /\ r.tag = "update" => (r.label = "rejected" /\ r.said = <<"thinking", "conservative">>)
              /\ w = "ok" => r.tag = "update"
         /\ ~rejected => (r.label = "validated" /\ r.said = <<"thinking", "answer">>)

\* C34 witness: the judge's result led to a rejection, the node asked for the
\* rewrite and appended it after the progress message
C34_Witness ==
  /\ run.last = "rejected"
  /\ run.said = <<"thinking", "conservative">>
  /\ run.calls = <<"retrieve", "complete", "complete", "complete">>
  /\ Len(ckpt[run.thread].messages) = run.startLen + 3

\* the utterance the last request found stored has been taken up by a run before:
\* the thread was suspended and no user message was stored after its last step
UtteranceTakenUp ==
  /\ req.pending.kind # "none"
  /\ Len(req.pre.messages) > 0
  /\ req.pre.messages[Len(req.pre.messages)].type # "human"

\* C35: the intent node, when it classifies an utterance, appends exactly one
\* message; and it classifies and acknowledges nothing when the run enters it a
\* second time, or when the run was started by a resume of a suspended thread
\* whose utterance a run has taken up already.
C35_OneAcknowledgement ==
  (disp # "idle" /\ run.last \in IntentLabels) =>
    /\ run.last # "no_query" => Len(run.said) = 1
    /\ (run.ran[INFER_INTENT] > 1 \/ (ResumeAccepted /\ UtteranceTakenUp)) =>
         (run.said = <<>> /\ run.calls = <<>>)

\* C36: whenever a run is suspended on a confirm-time interrupt, the stored state
\* has uiPhase = ConfirmingTime, the confirmation question is the last message
\* built, and the payload's selectedSlotId is the state's selectedSlotId and names
\* an entry of availableSlots.
C36_ConfirmCarriesQuestion ==
  (disp = "suspended" /\ raised.kind = "ConfirmTime") =>
    LET s == store[run.thread]
    IN /\ s.uiPhase = ConfirmingTime
       /\ run.said = <<"confirm_question">>
       /\ raised.selectedSlotId = s.selectedSlotId
       /\ InSlots(raised.selectedSlotId, s.availableSlots)

\* C37: in every step that is applied, the messages the graph held before the
\* step are the first messages it holds after it, each as it was, and every
\* message the step's nodes built comes after them: none has taken the place of
\* an entry that was there.
C37_NeverRewritten ==
  [][(hops' = hops + 1 /\ disp' \in {"running", "ended"})
     => LET old == ckpt[run.thread].messages
            new == ckpt'[run.thread].messages
        IN /\ Len(new) = Len(old) + Len(run'.said)
           /\ \A i \in 1..Len(old) : Aged(new[i]) = Aged(old[i])
           /\ Tick(store'[run.thread]).messages = AgeAll(new)]_vars

RECURSIVE HumanCount(_)
\* the user messages of a list
HumanCount(msgs) ==
  IF Len(msgs) = 0 THEN 0
  ELSE (IF Head(msgs).type = "human" THEN 1 ELSE 0) + HumanCount(Tail(msgs))

\* POST /chat was accepted while the run on record was in progress, and the store
\* holds what it wrote
PostedMidRun ==
  /\ disp = "running" /\ req.op = "chat" /\ req.status = 202 /\ req.thread = run.thread
  /\ LET msgs == store[run.thread].messages
     IN Len(msgs) > 0 /\ msgs[Len(msgs)].type = "human" /\ msgs[Len(msgs)].fresh

\* C39: when POST /chat was accepted for a thread while its run was in progress,
\* the next step of the run leaves the user message and the userQuery of that
\* request in the thread store.
C39_NoLostUtterance ==
  [][(PostedMidRun /\ hops' = hops + 1)
     => /\ HumanCount(store'[run.thread].messages) >= HumanCount(store[run.thread].messages)
        /\ store'[run.thread].userQuery = store[run.thread].userQuery]_vars

\* C40: whenever the offer node has offered slots, the availability tool ran in
\* this run, and the tool result the slots were taken from is a message this run
\* appended, not one the thread held when the run started.
C40_OfferedSlotsFresh ==
  (disp = "running" /\ run.last = "offered") =>
    /\ run.ran[OFFER_OPTIONS_TOOLS] >= 1
    /\ LastToolIndex(ckpt[run.thread].messages) > run.startLen
    /\ ckpt[run.thread].availableSlots = SliceCap(LastToolResult.slots)

====
